---- MODULE Spec2Model ----
(***************************************************************************)
(* Contact-management service (server.js): an Express application over a   *)
(* Mongoose model `Contact`.  The model covers process start-up (store     *)
(* connection, HTTP listener), the Contact schema (setters, validators,    *)
(* unique index on phone, timestamps) and the four API handlers            *)
(* (list/search, create, update, delete).                                  *)
(*                                                                         *)
(* Strings are sequences of one-character strings, so that trimming,       *)
(* lower-casing and the two regular expressions are computed, not assumed. *)
(* A handler is split where the code awaits the store: the part that runs  *)
(* in the process (presence check, casting, schema validation) is one      *)
(* step, the store round trip (one atomic MongoDB command) is another.     *)
(* Store commands issued before the connection is up are buffered by       *)
(* Mongoose and run once it is; store failures after a successful          *)
(* connection are not modelled, and the unique index on phone is taken to  *)
(* exist from the first write on.  The static-file routes keep no state    *)
(* and are left out.  Time is the number of writes so far, so two writes   *)
(* never carry the same timestamp.                                         *)
(***************************************************************************)
EXTENDS Integers, Sequences, FiniteSets, TLC

\* ------------------------------------------------------------------ bounds

\* Number of requests the clients send in one run.
MaxRequests == 3
\* Number of requests that can be in flight at the same time.
MaxInFlight == 2

\* ----------------------------------------------------------------- strings

\* A field absent from the JSON body (JavaScript undefined).  Characters are
\* one-character strings, so no string of the model equals it.
Undefined == <<"undefined">>

WhiteSpace == {" "}
Digits == {"0", "1", "2", "3", "4", "5", "6", "7", "8", "9"}
LineTerminators == {"\n", "\r"}
UpperLetters == <<"A","B","C","D","E","F","G","H","I","J","K","L","M",
                  "N","O","P","Q","R","S","T","U","V","W","X","Y","Z">>
LowerLetters == <<"a","b","c","d","e","f","g","h","i","j","k","l","m",
                  "n","o","p","q","r","s","t","u","v","w","x","y","z">>

\* String.prototype.toLowerCase on one character.
LowerChar(c) ==
    IF \E i \in 1..Len(UpperLetters) : UpperLetters[i] = c
    THEN LowerLetters[CHOOSE i \in 1..Len(UpperLetters) : UpperLetters[i] = c]
    ELSE c

\* The `lowercase: true` setter.
ToLowerCase(s) == [i \in 1..Len(s) |-> LowerChar(s[i])]

RECURSIVE TrimLeft(_)
TrimLeft(s) ==
    IF s = <<>> THEN s
    ELSE IF Head(s) \in WhiteSpace THEN TrimLeft(Tail(s)) ELSE s

RECURSIVE TrimRight(_)
TrimRight(s) ==
    IF s = <<>> THEN s
    ELSE IF s[Len(s)] \in WhiteSpace THEN TrimRight(SubSeq(s, 1, Len(s) - 1)) ELSE s

\* The `trim: true` setter (String.prototype.trim).
Trim(s) == TrimRight(TrimLeft(s))

\* A presence check that tests for undefined only.
FalsyStrict(v) == v = Undefined

\* JavaScript `!v` for a body field: undefined and "" are falsy.
Falsy(v) == v = Undefined \/ v = <<>>

\* `.` of a regular expression without the s flag.
Dot(c) == c \notin LineTerminators

\* /.+\@.+\..+/.test(v): unanchored; at least one character before an "@",
\* at least one between it and a later ".", at least one after that ".".
EmailRegexTest(v) ==
    \E i \in 1..Len(v) : \E j \in 1..Len(v) :
        /\ v[i] = "@"
        /\ i > 1 /\ Dot(v[i - 1])
        /\ v[j] = "."
        /\ j > i + 1
        /\ \A k \in (i + 1)..(j - 1) : Dot(v[k])
        /\ j < Len(v) /\ Dot(v[j + 1])

\* The phone pattern without its length: /^\d*$/.
PhoneDigitsOnly(v) == \A i \in 1..Len(v) : v[i] \in Digits

\* /^\d{10}$/.test(v)
PhoneRegexTest(v) == Len(v) = 10 /\ \A i \in 1..Len(v) : v[i] \in Digits

\* Mongoose's `required` validator of a String path.
RequiredOk(v) == v # Undefined /\ Len(v) > 0

\* Mongoose's `match` validator passes the empty value on to `required`.
MatchOk(v) == v = Undefined \/ v = <<>> \/ EmailRegexTest(v)

\* The email setters without `lowercase: true`.
CastEmailNoLower(v) == IF v = Undefined THEN v ELSE Trim(v)

\* The schema's setters, as applied when a document is built or an update is
\* cast: name and phone are trimmed, email is trimmed and lower-cased.
CastName(v) == IF v = Undefined THEN v ELSE Trim(v)
CastEmail(v) == IF v = Undefined THEN v ELSE ToLowerCase(Trim(v))
CastPhone(v) == IF v = Undefined THEN v ELSE Trim(v)

\* Schema validation of the cast fields (document validation on save, update
\* validators on findByIdAndUpdate): TRUE when no ValidationError is raised.
NameValid(v) == RequiredOk(v)
EmailValid(v) == RequiredOk(v) /\ MatchOk(v)
PhoneValid(v) == RequiredOk(v) /\ PhoneRegexTest(v)
Validates(name, email, phone) ==
    NameValid(name) /\ EmailValid(email) /\ PhoneValid(phone)

\* ------------------------------------------------------------------ inputs

PhoneA == <<"5","5","5","0","1","0","0","0","0","1">>
PhoneB == <<"5","5","5","0","1","0","0","0","0","2">>

NameAl == <<" ", "a", "l">>
NameBo == <<"B", "o">>
EmailOk == <<"A", "@", "b", ".", "c", " ">>
EmailBad == <<"a", "@", "b", ".", " ">>
PhonePadded == <<" ">> \o PhoneA
PhoneShort == <<"1", "2", "3", "4", "5">>

\* The request bodies the clients send, as <<name, email, phone>>: three
\* that validate (one needing every setter, one with a padded copy of the
\* same phone, one with another phone) and one for each way to be rejected.
BodyInputs ==
    { <<NameAl, EmailOk, PhoneA>>,
      <<NameBo, EmailOk, PhonePadded>>,
      <<NameBo, EmailOk, PhoneB>>,
      <<Undefined, EmailBad, PhoneA>>,
      <<NameBo, <<>>, PhoneShort>>,
      <<<<" ">>, EmailOk, PhoneA>>,
      <<NameBo, EmailBad, PhoneA>>,
      <<NameBo, EmailOk, PhoneShort>> }
PhoneInputs == { b[3] : b \in BodyInputs }
SearchInputs == { Undefined, <<"B">> }

\* Path parameter of update and delete: MalformedId stands for a string that
\* does not cast to an ObjectId; 1, 2, ... are well-formed ObjectIds, handed
\* out by the store in this order.
MalformedId == 0
IsObjectId(id) == id # MalformedId

\* ------------------------------------------------------------ list ordering

\* Collation { locale: 'en', strength: 2 }: case is ignored; white space
\* sorts before digits, digits before letters.
CollationOrder ==
    <<" ", "0", "1", "2", "3", "4", "5", "6", "7", "8", "9">> \o LowerLetters
CollationRank(c) ==
    LET l == LowerChar(c)
    IN IF \E i \in 1..Len(CollationOrder) : CollationOrder[i] = l
       THEN CHOOSE i \in 1..Len(CollationOrder) : CollationOrder[i] = l
       ELSE 0

RECURSIVE CollationLeq(_, _)
CollationLeq(a, b) ==
    IF a = <<>> THEN TRUE
    ELSE IF b = <<>> THEN FALSE
    ELSE IF CollationRank(Head(a)) < CollationRank(Head(b)) THEN TRUE
    ELSE IF CollationRank(Head(a)) > CollationRank(Head(b)) THEN FALSE
    ELSE CollationLeq(Tail(a), Tail(b))

\* new RegExp(search, 'i') matched against a name, for a search string free
\* of regular-expression metacharacters: case-insensitive substring.
SearchMatches(name, search) ==
    LET n == ToLowerCase(name)
        q == ToLowerCase(search)
    IN \E i \in 1..(Len(n) - Len(q) + 1) : SubSeq(n, i, i + Len(q) - 1) = q

\* ------------------------------------------------------------------- state

VARIABLES
    conn,        \* mongoose.connect: "connecting", "connected" or "exited"
    listening,   \* app.listen has bound the port
    contacts,    \* the contacts collection: _id -> document
    nextId,      \* the next ObjectId the store hands out
    clock,       \* the time of the last write
    reqs,        \* the handler invocation of each in-flight slot
    issued,      \* number of requests received so far
    phoneWrites, \* history: writes that added or removed a phone's holder
    servedUnconnected \* history: a response was sent while not connected

vars == <<conn, listening, contacts, nextId, clock, reqs, issued,
          phoneWrites, servedUnconnected>>

Slots == 1..MaxInFlight

\* Phones a document can hold, for the history counter.
StorablePhones == { CastPhone(p) : p \in { q \in PhoneInputs : PhoneValid(CastPhone(q)) } }

IdleReq ==
    [op |-> "none", rid |-> 0, id |-> MalformedId, name |-> Undefined,
     email |-> Undefined, phone |-> Undefined, search |-> Undefined,
     pc |-> "idle", status |-> 0, message |-> "", body |-> <<>>,
     w0 |-> 0, w1 |-> 0, free0 |-> FALSE, raced |-> {}]

\* The collection outlives the process: at start-up it is empty or holds what
\* an earlier run stored (here one Contact, created from the first body).
StoresAtStart ==
    { <<>>,
      <<[id |-> 1, name |-> CastName(NameAl), email |-> CastEmail(EmailOk),
         phone |-> CastPhone(PhoneA), createdAt |-> 1, updatedAt |-> 1]>> }

Init ==
    /\ conn = "connecting"
    /\ listening = FALSE
    /\ contacts \in StoresAtStart
    /\ nextId = Len(contacts) + 1
    /\ clock = Len(contacts)
    /\ reqs = [s \in Slots |-> IdleReq]
    /\ issued = 0
    /\ phoneWrites = [p \in StorablePhones |->
                        Cardinality({ i \in DOMAIN contacts : contacts[i].phone = p })]
    /\ servedUnconnected = FALSE

\* ------------------------------------------------------------------- store

StoredIds == DOMAIN contacts

\* The collection without the unique index.
NoUniqueIndex(phone, self) == FALSE

\* A uniqueness check that does not leave out the document being updated.
DuplicateKeyAnyHolder(phone, self) ==
    \E i \in StoredIds : contacts[i].phone = phone

\* The unique index on phone: some document other than `self` holds `phone`
\* (E11000 duplicate key).  An insert passes MalformedId as `self`.
DuplicateKey(phone, self) ==
    \E i \in StoredIds : i # self /\ contacts[i].phone = phone

\* insertOne of a new document with timestamps.
InsertContact(id, name, email, phone, now) ==
    contacts @@ (id :> [id |-> id, name |-> name, email |-> email,
                        phone |-> phone, createdAt |-> now, updatedAt |-> now])

\* An update that replaces the document, createdAt included.
SetContactReplace(id, name, email, phone, now) ==
    [contacts EXCEPT ![id] = [id |-> id, name |-> name, email |-> email,
                              phone |-> phone, createdAt |-> now, updatedAt |-> now]]

\* $set of name, email, phone and updatedAt on one document.
SetContact(id, name, email, phone, now) ==
    [contacts EXCEPT ![id] = [@ EXCEPT !.name = name, !.email = email,
                                      !.phone = phone, !.updatedAt = now]]

\* A delete that leaves the document in the collection.
RemoveContactSoft(id) == contacts

\* findOneAndDelete: the document is removed from the collection.
RemoveContact(id) == [i \in StoredIds \ {id} |-> contacts[i]]

\* find(query).collation(...).sort({ name: 1 }): the matching documents in
\* every order that is ascending by name under the collation (documents
\* with equal keys come in any order).
FindSorted(search) ==
    LET hit == { i \in StoredIds :
                   Falsy(search) \/ SearchMatches(contacts[i].name, search) }
        n == Cardinality(hit)
    IN { [k \in 1..n |-> contacts[f[k]]] :
           f \in { g \in [1..n -> hit] :
                     /\ \A a, b \in 1..n : a # b => g[a] # g[b]
                     /\ \A a \in 1..(n - 1) :
                          CollationLeq(contacts[g[a]].name, contacts[g[a + 1]].name) } }

Bump(phones) ==
    [p \in StorablePhones |-> IF p \in phones THEN phoneWrites[p] + 1 ELSE phoneWrites[p]]

Writes(phone) == IF phone \in StorablePhones THEN phoneWrites[phone] ELSE 0

\* ---------------------------------------------------------------- handlers

CanReceive(s) ==
    /\ listening
    /\ conn # "exited"
    /\ reqs[s].pc \in {"idle", "done"}
    /\ issued < MaxRequests

\* res.status(status).json(...): the handler ends.
Respond(s, r, status, message, body) ==
    /\ reqs' = [reqs EXCEPT ![s] = [r EXCEPT !.pc = "done", !.status = status,
                                            !.message = message, !.body = body]]
    /\ servedUnconnected' = (servedUnconnected \/ conn # "connected")

\* The handler suspends on its store command.
Await(s, r) ==
    /\ reqs' = [reqs EXCEPT ![s] = [r EXCEPT !.pc = "await"]]
    /\ UNCHANGED servedUnconnected

NewReq(op, id, name, email, phone, search) ==
    [IdleReq EXCEPT !.op = op, !.rid = issued + 1, !.id = id, !.name = name,
                    !.email = email, !.phone = phone, !.search = search]

\* The ids a client may send: a malformed one, every id handed out so far,
\* and one the store has never handed out.
IdInputs == MalformedId..nextId

\* History of a create that reaches the store: the writes to its phone so
\* far, whether the phone is free, and the creates of the same phone that
\* are waiting for the store at the same time.
Racing(s, phone) ==
    { o \in Slots \ {s} : /\ reqs[o].op = "create"
                          /\ reqs[o].pc = "await"
                          /\ CastPhone(reqs[o].phone) = phone }

\* app.listen(PORT, ...)
Listen ==
    /\ ~listening
    /\ conn # "exited"
    /\ listening' = TRUE
    /\ UNCHANGED <<conn, contacts, nextId, clock, reqs, issued, phoneWrites,
                   servedUnconnected>>

\* mongoose.connect(...).then(...)
ConnectOk ==
    /\ conn = "connecting"
    /\ conn' = "connected"
    /\ UNCHANGED <<listening, contacts, nextId, clock, reqs, issued, phoneWrites,
                   servedUnconnected>>

\* mongoose.connect(...).catch(...): process.exit(1)
ConnectFail ==
    /\ conn = "connecting"
    /\ conn' = "exited"
    /\ UNCHANGED <<listening, contacts, nextId, clock, reqs, issued, phoneWrites,
                   servedUnconnected>>

\* POST /api/contacts up to the insert: the presence check, new Contact(...)
\* and the validation that save() runs before it sends the insert.
CreateReceive(s, name, email, phone) ==
    /\ CanReceive(s)
    /\ issued' = issued + 1
    /\ LET r == NewReq("create", MalformedId, name, email, phone, Undefined)
           n == CastName(name)
           e == CastEmail(email)
           p == CastPhone(phone)
       IN IF Falsy(name) \/ Falsy(email) \/ Falsy(phone)
          THEN Respond(s, r, 400, "required", <<>>)
          ELSE IF ~Validates(n, e, p)
          THEN Respond(s, r, 400, "validation", <<>>)
          ELSE /\ reqs' = [o \in Slots |->
                             IF o = s
                             THEN [r EXCEPT !.pc = "await", !.w0 = Writes(p),
                                            !.free0 = ~DuplicateKey(p, MalformedId),
                                            !.raced = { reqs[x].rid : x \in Racing(s, p) }]
                             ELSE IF o \in Racing(s, p)
                             THEN [reqs[o] EXCEPT !.raced = @ \cup {r.rid}]
                             ELSE reqs[o]]
               /\ UNCHANGED servedUnconnected
    /\ UNCHANGED <<conn, listening, contacts, nextId, clock, phoneWrites>>

\* The insert of save() at the store, and the response.
CreateSave(s) ==
    /\ conn = "connected"
    /\ reqs[s].op = "create" /\ reqs[s].pc = "await"
    /\ LET r == reqs[s]
           n == CastName(r.name)
           e == CastEmail(r.email)
           p == CastPhone(r.phone)
       IN IF DuplicateKey(p, MalformedId)
          THEN /\ Respond(s, [r EXCEPT !.w1 = Writes(p)], 409, "duplicate", <<>>)
               /\ UNCHANGED <<contacts, nextId, clock, phoneWrites>>
          ELSE /\ contacts' = InsertContact(nextId, n, e, p, clock + 1)
               /\ nextId' = nextId + 1
               /\ clock' = clock + 1
               /\ phoneWrites' = Bump({p})
               /\ Respond(s, [r EXCEPT !.w1 = phoneWrites'[p]], 201, "",
                          <<contacts'[nextId]>>)
    /\ UNCHANGED <<conn, listening, issued>>

\* PUT /api/contacts/:id up to the store command: the presence check, the
\* cast of the id and of the update, and the update validators.
UpdateReceive(s, id, name, email, phone) ==
    /\ CanReceive(s)
    /\ id \in IdInputs
    /\ issued' = issued + 1
    /\ LET r == NewReq("update", id, name, email, phone, Undefined)
       IN IF Falsy(name) \/ Falsy(email) \/ Falsy(phone)
          THEN Respond(s, r, 400, "required", <<>>)
          ELSE IF ~IsObjectId(id)
          THEN Respond(s, r, 500, "CastError", <<>>)
          ELSE IF ~Validates(CastName(name), CastEmail(email), CastPhone(phone))
          THEN Respond(s, r, 400, "validation", <<>>)
          ELSE Await(s, r)
    /\ UNCHANGED <<conn, listening, contacts, nextId, clock, phoneWrites>>

\* findOneAndUpdate at the store, and the response.
UpdateStore(s) ==
    /\ conn = "connected"
    /\ reqs[s].op = "update" /\ reqs[s].pc = "await"
    /\ LET r == reqs[s]
           n == CastName(r.name)
           e == CastEmail(r.email)
           p == CastPhone(r.phone)
       IN IF r.id \notin StoredIds
          THEN /\ Respond(s, r, 404, "not found", <<>>)
               /\ UNCHANGED <<contacts, clock, phoneWrites>>
          ELSE IF DuplicateKey(p, r.id)
          THEN /\ Respond(s, r, 409, "duplicate", <<>>)
               /\ UNCHANGED <<contacts, clock, phoneWrites>>
          ELSE /\ contacts' = SetContact(r.id, n, e, p, clock + 1)
               /\ clock' = clock + 1
               /\ phoneWrites' = IF contacts[r.id].phone = p THEN phoneWrites
                                 ELSE Bump({p, contacts[r.id].phone})
               /\ Respond(s, r, 200, "", <<contacts'[r.id]>>)
    /\ UNCHANGED <<conn, listening, nextId, issued>>

\* DELETE /api/contacts/:id up to the store command: the cast of the id.
DeleteReceive(s, id) ==
    /\ CanReceive(s)
    /\ id \in IdInputs
    /\ issued' = issued + 1
    /\ LET r == NewReq("delete", id, Undefined, Undefined, Undefined, Undefined)
       IN IF ~IsObjectId(id)
          THEN Respond(s, r, 500, "CastError", <<>>)
          ELSE Await(s, r)
    /\ UNCHANGED <<conn, listening, contacts, nextId, clock, phoneWrites>>

\* findOneAndDelete at the store, and the response.
DeleteStore(s) ==
    /\ conn = "connected"
    /\ reqs[s].op = "delete" /\ reqs[s].pc = "await"
    /\ LET r == reqs[s]
       IN IF r.id \notin StoredIds
          THEN /\ Respond(s, r, 404, "not found", <<>>)
               /\ UNCHANGED <<contacts, phoneWrites>>
          ELSE /\ contacts' = RemoveContact(r.id)
               /\ phoneWrites' = Bump({contacts[r.id].phone})
               /\ Respond(s, r, 200, "deleted", <<>>)
    /\ UNCHANGED <<conn, listening, nextId, clock, issued>>

\* GET /api/contacts up to the find.
ListReceive(s, search) ==
    /\ CanReceive(s)
    /\ issued' = issued + 1
    /\ Await(s, NewReq("list", MalformedId, Undefined, Undefined, Undefined, search))
    /\ UNCHANGED <<conn, listening, contacts, nextId, clock, phoneWrites>>

\* The find at the store, and the response.
ListFind(s) ==
    /\ conn = "connected"
    /\ reqs[s].op = "list" /\ reqs[s].pc = "await"
    /\ \E result \in FindSorted(reqs[s].search) :
           Respond(s, reqs[s], 200, "", result)
    /\ UNCHANGED <<conn, listening, contacts, nextId, clock, issued, phoneWrites>>

Next ==
    \/ Listen
    \/ ConnectOk
    \/ ConnectFail
    \/ \E s \in Slots, b \in BodyInputs : CreateReceive(s, b[1], b[2], b[3])
    \/ \E s \in Slots : CreateSave(s)
    \/ \E s \in Slots, id \in MalformedId..MaxRequests, b \in BodyInputs :
           UpdateReceive(s, id, b[1], b[2], b[3])
    \/ \E s \in Slots : UpdateStore(s)
    \/ \E s \in Slots, id \in MalformedId..MaxRequests : DeleteReceive(s, id)
    \/ \E s \in Slots : DeleteStore(s)
    \/ \E s \in Slots, search \in SearchInputs : ListReceive(s, search)
    \/ \E s \in Slots : ListFind(s)

Spec == Init /\ [][Next]_vars

\* ---------------------------------------------------- the stated properties
\* The field constraints and normal forms as the specification words them,
\* written without the operators of the schema above.

NonBlank(s) == { i \in 1..Len(s) : s[i] # " " }
Max(S) == CHOOSE m \in S : \A x \in S : x <= m
Min(S) == CHOOSE m \in S : \A x \in S : m <= x

\* s without its leading and trailing blanks.
Stripped(s) ==
    IF s = Undefined \/ NonBlank(s) = {} THEN <<>>
    ELSE SubSeq(s, Min(NonBlank(s)), Max(NonBlank(s)))

\* s with its upper-case letters replaced by lower-case ones.
Lowered(s) ==
    [i \in 1..Len(s) |->
        CASE s[i] = "A" -> "a"
          [] s[i] = "B" -> "b"
          [] OTHER -> s[i]]

\* <non-empty>@<non-empty>.<non-empty>
EmailShape(v) ==
    \E i, j \in 1..Len(v) :
        v[i] = "@" /\ v[j] = "." /\ 1 < i /\ i + 1 < j /\ j < Len(v)

\* exactly 10 decimal digits
TenDigits(v) ==
    /\ Len(v) = 10
    /\ \A i \in 1..Len(v) :
         v[i] \in {"0", "1", "2", "3", "4", "5", "6", "7", "8", "9"}

Missing(r) ==
    \E v \in {r.name, r.email, r.phone} : v = Undefined \/ v = <<>>

\* The constraints on a body, judged on the fields as sent ...
IllFormedRaw(r) ==
    \/ Missing(r)
    \/ Stripped(r.name) = <<>>
    \/ ~EmailShape(r.email)
    \/ ~TenDigits(r.phone)

\* ... and on the fields with their surrounding blanks removed.
IllFormedTrimmed(r) ==
    \/ Missing(r)
    \/ Stripped(r.name) = <<>>
    \/ ~EmailShape(Stripped(r.email))
    \/ ~TenDigits(Stripped(r.phone))

HoldersOf(phone) == { i \in StoredIds : contacts[i].phone = phone }

\* Slot s receives a new request in this step.
Received(s) == reqs'[s].rid # reqs[s].rid
\* The store command of slot s runs and its response is sent in this step.
Answered(s) == reqs[s].pc = "await" /\ reqs'[s].pc = "done"
OthersUntouched(keep) ==
    \A i \in StoredIds \ keep : i \in DOMAIN contacts' /\ contacts'[i] = contacts[i]

\* C1: in every reachable state no two stored Contacts have the same phone.
C1_PhonesUnique ==
    \A i, j \in StoredIds : i # j => contacts[i].phone # contacts[j].phone

\* C1 witness: two Contacts are stored and a create was refused for its phone.
C1_Witness ==
    /\ Cardinality(StoredIds) >= 2
    /\ \E s \in Slots : reqs[s].op = "create" /\ reqs[s].pc = "done" /\ reqs[s].status = 409

\* Two creates of the same phone that waited for the store at the same time,
\* both answered by the store, the phone free when each was received.
RacedPair(a, b) ==
    /\ a # b
    /\ reqs[a].op = "create" /\ reqs[b].op = "create"
    /\ reqs[a].pc = "done" /\ reqs[b].pc = "done"
    /\ reqs[a].status \in {201, 409} /\ reqs[b].status \in {201, 409}
    /\ reqs[b].rid \in reqs[a].raced
    /\ Stripped(reqs[a].phone) = Stripped(reqs[b].phone)
    /\ reqs[a].free0 /\ reqs[b].free0

Created(a, b) == Cardinality({ s \in {a, b} : reqs[s].status = 201 })

\* No request other than the pair wrote the phone from the first receipt to
\* the second answer.
Undisturbed(a, b) ==
    Max({reqs[a].w1, reqs[b].w1}) - Min({reqs[a].w0, reqs[b].w0}) = Created(a, b)

\* C2: of two concurrent creates of the same free phone, exactly one gets 201
\* and the other 409, and exactly one Contact with that phone is stored
\* (until a later request removes it).
C2_RaceHasOneWinner ==
    \A a, b \in Slots :
        RacedPair(a, b) /\ Undisturbed(a, b) =>
            /\ {reqs[a].status, reqs[b].status} = {201, 409}
            /\ (phoneWrites[Stripped(reqs[a].phone)] = Max({reqs[a].w1, reqs[b].w1})
                  => Cardinality(HoldersOf(Stripped(reqs[a].phone))) = 1)

\* C2 witness: such a pair has been answered.
C2_Witness ==
    \E a, b \in Slots :
        /\ RacedPair(a, b) /\ Undisturbed(a, b)
        /\ reqs[a].status = 201 /\ reqs[b].status = 409

StoredWellFormed ==
    \A i \in StoredIds :
        /\ Stripped(contacts[i].name) # <<>>
        /\ EmailShape(contacts[i].email)
        /\ TenDigits(contacts[i].phone)

\* C3 as stated: every stored Contact meets the field constraints, and a
\* create or update whose fields as sent violate one of them is rejected.
C3_RawViolationRejected ==
    /\ StoredWellFormed
    /\ \A s \in Slots :
         (reqs[s].op \in {"create", "update"} /\ IllFormedRaw(reqs[s])
              /\ reqs[s].pc = "done") => reqs[s].status \notin {200, 201}

\* C3 amended: every stored Contact meets the field constraints in every
\* state, and a create or update whose fields violate one of them after
\* trimming is rejected when it is received, the store unchanged.
C3_TrimmedViolationRejected ==
    [][/\ StoredWellFormed'
       /\ \A s \in Slots :
            (Received(s) /\ reqs'[s].op \in {"create", "update"}
                /\ IllFormedTrimmed(reqs'[s]))
            => /\ reqs'[s].pc = "done"
               /\ reqs'[s].status \in {400, 500}
               /\ contacts' = contacts]_vars

\* C3 witness: an update of a stored Contact was rejected for its format.
C3_Witness ==
    \E s \in Slots :
        /\ reqs[s].op = "update" /\ reqs[s].pc = "done" /\ reqs[s].status = 400
        /\ ~Missing(reqs[s]) /\ IllFormedTrimmed(reqs[s])
        /\ reqs[s].id \in StoredIds

\* C4 as stated: 400 when a field is missing or empty, else 400 when the
\* email or phone as sent violates its format, else 409 or 201.
C4_StatusOrderRaw ==
    \A s \in Slots :
        reqs[s].op = "create" /\ reqs[s].pc = "done" =>
            IF Missing(reqs[s]) \/ ~EmailShape(reqs[s].email) \/ ~TenDigits(reqs[s].phone)
            THEN reqs[s].status = 400
            ELSE reqs[s].status \in {409, 201}

\* C4 amended: a create gets 400 ("required") when a field is missing or
\* empty; otherwise 400 (validation) when the name is blank or the trimmed
\* email or phone violates its format; otherwise 409 when a stored Contact
\* holds the trimmed phone; otherwise 201 with exactly one Contact added.
\* Whenever the status is not 201 the store is unchanged.
C4_StatusOrder ==
    [][\A s \in Slots :
        /\ Received(s) /\ reqs'[s].op = "create" =>
             /\ contacts' = contacts
             /\ IF Missing(reqs'[s])
                THEN /\ reqs'[s].pc = "done" /\ reqs'[s].status = 400
                     /\ reqs'[s].message = "required"
                ELSE IF IllFormedTrimmed(reqs'[s])
                THEN /\ reqs'[s].pc = "done" /\ reqs'[s].status = 400
                     /\ reqs'[s].message = "validation"
                ELSE reqs'[s].pc = "await"
        /\ Answered(s) /\ reqs[s].op = "create" =>
             IF HoldersOf(Stripped(reqs[s].phone)) # {}
             THEN reqs'[s].status = 409 /\ contacts' = contacts
             ELSE /\ reqs'[s].status = 201
                  /\ Cardinality(DOMAIN contacts' \ StoredIds) = 1
                  /\ StoredIds \subseteq DOMAIN contacts'
                  /\ OthersUntouched({})]_vars

\* C4 witness: a create without name, with a malformed email and with a phone
\* that a stored Contact holds, was answered 400.
C4_Witness ==
    \E s \in Slots :
        /\ reqs[s].op = "create" /\ reqs[s].pc = "done" /\ reqs[s].status = 400
        /\ Missing(reqs[s]) /\ ~EmailShape(Stripped(reqs[s].email))
        /\ HoldersOf(Stripped(reqs[s].phone)) # {}

WellFormedTrimmed(r) == ~IllFormedTrimmed(r)

\* C5: an update whose id identifies no stored Contact (here: an id the store
\* never handed out, or one that is no ObjectId) and whose body is well
\* formed is answered 404.
C5_UnknownIdIs404 ==
    \A s \in Slots :
        (/\ reqs[s].op = "update" /\ reqs[s].pc = "done"
         /\ WellFormedTrimmed(reqs[s])
         /\ reqs[s].id \notin 1..(nextId - 1))
        => reqs[s].status = 404

\* C6: an update answered 200 replaces only the name, email and phone of its
\* Contact and refreshes its updatedAt; its id and createdAt, every other
\* Contact and the set of stored ids stay as they were.
C6_UpdateFrame ==
    [][\A s \in Slots :
        (Answered(s) /\ reqs[s].op = "update" /\ reqs'[s].status = 200) =>
            LET c == reqs[s].id
            IN /\ c \in StoredIds
               /\ DOMAIN contacts' = StoredIds
               /\ OthersUntouched({c})
               /\ contacts'[c].id = contacts[c].id
               /\ contacts'[c].createdAt = contacts[c].createdAt
               /\ contacts'[c].updatedAt > contacts[c].updatedAt
               /\ contacts'[c].updatedAt = clock'
               /\ contacts'[c].name = Stripped(reqs[s].name)
               /\ contacts'[c].email = Lowered(Stripped(reqs[s].email))
               /\ contacts'[c].phone = Stripped(reqs[s].phone)
               /\ reqs'[s].body = <<contacts'[c]>>]_vars

\* C6 witness: one of two stored Contacts has been updated with 200.
C6_Witness ==
    \E s \in Slots :
        /\ reqs[s].op = "update" /\ reqs[s].pc = "done" /\ reqs[s].status = 200
        /\ Cardinality(StoredIds) >= 2
        /\ reqs[s].id \in StoredIds
        /\ contacts[reqs[s].id].updatedAt > contacts[reqs[s].id].createdAt

\* C7: an update with a well-formed body of a stored Contact c is answered 409
\* exactly when a stored Contact other than c holds the requested phone, and
\* then changes nothing; otherwise (c's own phone included) it is answered 200.
C7_UpdateConflict ==
    [][\A s \in Slots :
        (Answered(s) /\ reqs[s].op = "update" /\ reqs[s].id \in StoredIds) =>
            LET c == reqs[s].id
                taken == HoldersOf(Stripped(reqs[s].phone)) \ {c} # {}
            IN /\ WellFormedTrimmed(reqs[s])
               /\ reqs'[s].status = 409 <=> taken
               /\ reqs'[s].status = 409 => contacts' = contacts
               /\ ~taken => reqs'[s].status = 200]_vars

\* C7 witness: one update was answered 409, and another that kept its
\* Contact's own phone (the phone was written once, by the create) 200.
C7_Witness ==
    \E a, b \in Slots :
        /\ reqs[a].op = "update" /\ reqs[a].pc = "done" /\ reqs[a].status = 409
        /\ reqs[b].op = "update" /\ reqs[b].pc = "done" /\ reqs[b].status = 200
        /\ reqs[b].id \in StoredIds
        /\ contacts[reqs[b].id].phone = Stripped(reqs[b].phone)
        /\ phoneWrites[Stripped(reqs[b].phone)] = 1

\* Ids the store has handed out and that are no longer stored.
DeletedIds == (1..(nextId - 1)) \ StoredIds

\* C8: deleting a stored Contact is answered 200 and removes exactly that
\* Contact; a removed id is never stored again, so every later list omits it
\* and every later delete of it is answered 404 and changes nothing; a create
\* is refused with 409 only for a phone that a stored Contact holds, so the
\* phone of a removed Contact is free again.
C8_DeleteIsFinal ==
    [][/\ \A s \in Slots :
            (Answered(s) /\ reqs[s].op = "delete") =>
                IF reqs[s].id \in StoredIds
                THEN /\ reqs'[s].status = 200
                     /\ DOMAIN contacts' = StoredIds \ {reqs[s].id}
                     /\ OthersUntouched({reqs[s].id})
                ELSE reqs'[s].status = 404 /\ contacts' = contacts
       /\ DeletedIds \subseteq DeletedIds'
       /\ \A s \in Slots :
            (Answered(s) /\ reqs[s].op = "list") =>
                /\ reqs'[s].status = 200
                /\ \A k \in 1..Len(reqs'[s].body) :
                     /\ reqs'[s].body[k].id \in StoredIds
                     /\ reqs'[s].body[k] = contacts[reqs'[s].body[k].id]
       /\ \A s \in Slots :
            (Answered(s) /\ reqs[s].op = "create") =>
                IF HoldersOf(Stripped(reqs[s].phone)) = {}
                THEN reqs'[s].status = 201
                ELSE reqs'[s].status = 409]_vars

\* C8 witness: a Contact was removed, a second delete of its id was answered
\* 404, and a later create with its phone was answered 201.
C8_Witness ==
    \E a, b \in Slots :
        /\ reqs[a].op = "delete" /\ reqs[a].pc = "done" /\ reqs[a].status = 404
        /\ reqs[a].id \in DeletedIds
        /\ reqs[b].op = "create" /\ reqs[b].pc = "done" /\ reqs[b].status = 201
        /\ reqs[b].body[1].id > reqs[a].id
        /\ phoneWrites[Stripped(reqs[b].phone)] >= 3

\* A create answered 201 in slot s whose Contact is still stored and has not
\* been updated since.
CreatedIntact(s) ==
    /\ reqs[s].op = "create" /\ reqs[s].pc = "done" /\ reqs[s].status = 201
    /\ reqs[s].body[1].id \in StoredIds
    /\ contacts[reqs[s].body[1].id].updatedAt = contacts[reqs[s].body[1].id].createdAt

Lists(l) == Answered(l) /\ reqs[l].op = "list" /\ Falsy(reqs[l].search)

\* C9 as stated: a list after a create answered 201 contains a Contact whose
\* name, email and phone equal the ones sent.
C9_RoundTripRaw ==
    [][\A s, l \in Slots :
        (CreatedIntact(s) /\ Lists(l)) =>
            \E k \in 1..Len(reqs'[l].body) :
                /\ reqs'[l].body[k].name = reqs[s].name
                /\ reqs'[l].body[k].email = reqs[s].email
                /\ reqs'[l].body[k].phone = reqs[s].phone]_vars

\* C9 amended: a list after a create answered 201 (the Contact neither
\* updated nor deleted in between) contains a Contact with the id of the 201
\* response whose name and phone equal the ones sent with surrounding blanks
\* removed and whose email equals the one sent, trimmed and lower-cased.
C9_RoundTripNormalised ==
    [][\A s, l \in Slots :
        (CreatedIntact(s) /\ Lists(l)) =>
            \E k \in 1..Len(reqs'[l].body) :
                /\ reqs'[l].body[k].id = reqs[s].body[1].id
                /\ reqs'[l].body[k].name = Stripped(reqs[s].name)
                /\ reqs'[l].body[k].email = Lowered(Stripped(reqs[s].email))
                /\ reqs'[l].body[k].phone = Stripped(reqs[s].phone)]_vars

\* C9 witness: a create whose name and email the setters change was answered
\* 201 and a later list shows its Contact.
C9_Witness ==
    \E s, l \in Slots :
        /\ CreatedIntact(s)
        /\ reqs[s].name # Stripped(reqs[s].name)
        /\ reqs[s].email # Lowered(Stripped(reqs[s].email))
        /\ reqs[l].op = "list" /\ reqs[l].pc = "done" /\ reqs[l].rid > reqs[s].rid
        /\ \E k \in 1..Len(reqs[l].body) : reqs[l].body[k] = reqs[s].body[1]

\* C10: no request is answered while the store connection is not established
\* (before the connection attempt has succeeded, or by a process that exits
\* because it failed).
C10_NoAnswerUnconnected == ~servedUnconnected

====
